---- MODULE Spec2Model ----
(***************************************************************************)
(* Model of truth-table-gen.py: lexer, recursive-descent parser, variable  *)
(* collector, binding enumerator, evaluator and table printer.             *)
(*                                                                         *)
(* Representation.  A character is a one-character string.  A Python str   *)
(* argument is a sequence of characters.  An AST is a tagged tuple:        *)
(*   <<"VAR", c>>      the Python character c (a variable)                 *)
(*   <<"NOT", e>>      the Python tuple (Op.NOT, e)                        *)
(*   <<"AND", l, r>>   the Python tuple (Op.AND, l, r)                     *)
(*   <<"OR", l, r>>    the Python tuple (Op.OR, l, r)                      *)
(* A function that can raise returns a record whose field exc is None or   *)
(* the text of the exception; the parser functions also thread the module  *)
(* globals toks and toks_i through the field g.                            *)
(***************************************************************************)
EXTENDS Integers, Sequences, FiniteSets, TLC

VARIABLES pc, string, toks, toks_i, log, entry, expr, exc, vars, bind_combos, binds, result, out

state_vars == <<pc, string, toks, toks_i, log, entry, expr, exc, vars, bind_combos, binds, result, out>>

(***************************************************************************)
(* Bounds of the model.                                                    *)
(***************************************************************************)
MaxLen == 4
SeqMaxLen == 2
MaxVars == 3
MaxNodes == 5

(***************************************************************************)
(* Python values.                                                          *)
(***************************************************************************)
\* None where a character or a message is expected; str(None) is "None".
None == "None"

\* None where an AST or a list is expected.
NoneObj == <<"None">>

Upper == <<"A","B","C","D","E","F","G","H","I","J","K","L","M","N","O","P","Q","R","S","T","U","V","W","X","Y","Z">>

Lower == <<"a","b","c","d","e","f","g","h","i","j","k","l","m","n","o","p","q","r","s","t","u","v","w","x","y","z">>

\* The code point of a character (ASCII letters; every other character of
\* the model's alphabet is below "A").
Ord(c) ==
  IF \E i \in DOMAIN Upper : Upper[i] = c
    THEN 64 + (CHOOSE i \in DOMAIN Upper : Upper[i] = c)
  ELSE IF \E i \in DOMAIN Lower : Lower[i] = c
    THEN 96 + (CHOOSE i \in DOMAIN Lower : Lower[i] = c)
  ELSE 0

\* str.isalpha on one character.
isalpha(c) == Ord(c) > 0

\* str.isspace on one character.
isspace(c) == c \in {" ", "\t", "\n", "\r"}

\* The type test of expr_vars and expr_eval.
pytype(e) ==
  IF e = NoneObj THEN "NoneType"
  ELSE IF e[1] = "VAR" THEN "str"
  ELSE "tuple"

Ret(g, v) == [g |-> g, exc |-> None, val |-> v]

Raise(g, msg) == [g |-> g, exc |-> msg, val |-> NoneObj]

\* error(msg): raise Exception(f'error: {msg}')
error(g, msg) == Raise(g, "error: " \o msg)

(***************************************************************************)
(* Parser.  g = [toks, toks_i, log]; log is the history of the values      *)
(* assigned to toks_i since the last call of parse.                        *)
(***************************************************************************)
next(g) == IF g.toks_i < Len(g.toks) THEN g.toks[g.toks_i + 1] ELSE None

consume(g) == [g EXCEPT !.toks_i = @ + 1, !.log = Append(@, g.toks_i + 1)]

expect(g, c) ==
  IF c # next(g)
    THEN error(g, "expected " \o c \o ", got '" \o next(g) \o "'")
    ELSE Ret(consume(g), NoneObj)

parse_var(g) ==
  IF next(g) = None \/ ~isalpha(next(g))
    THEN error(g, "expected variable, got '" \o next(g) \o "'")
    ELSE Ret(consume(g), <<"VAR", next(g)>>)

\* The one element of a singleton.  The({F(x) : x \in {e}}) is F(x) with x
\* bound to the value of e: a local variable assigned once.
The(S) == CHOOSE x \in S : TRUE

RECURSIVE parse_prod(_), parse_term(_), parse_expr(_)

\* The branch "(" EXPR ")" of parse_prod.
parse_paren(g) ==
  The({ IF e.exc # None THEN e
        ELSE The({ IF x.exc # None THEN x ELSE Ret(x.g, e.val) :
                   x \in {expect(e.g, ")")} }) :
        e \in {parse_expr(consume(g))} })

parse_prod(g) ==
  The({ IF first.exc # None THEN first
        ELSE IF next(first.g) = "'"
          THEN Ret(consume(first.g), <<"NOT", first.val>>)
          ELSE first :
        first \in {IF next(g) = "(" THEN parse_paren(g) ELSE parse_var(g)} })

\* The rest of parse_term once left is parsed; t is the token at the cursor.
parse_term_right(left, t) ==
  IF t # None /\ (isalpha(t) \/ t = "(")
    THEN parse_term(left.g)
  ELSE IF t = "*"
    THEN parse_term(consume(left.g))
  ELSE Ret(left.g, NoneObj)

\* Mutant: after "*" the right operand is parsed as a whole EXPR.
parse_term_star_expr(g) ==
  The({ IF left.exc # None THEN left
        ELSE The({ IF right.exc # None THEN right
                   ELSE IF right.val = NoneObj THEN Ret(right.g, left.val)
                   ELSE Ret(right.g, <<"AND", left.val, right.val>>) :
                   right \in {IF next(left.g) = "*"
                                THEN parse_expr(consume(left.g))
                                ELSE parse_term_right(left, next(left.g))} }) :
        left \in {parse_prod(g)} })

\* Mutant: the lookahead for an implicit AND misses "(".
parse_term_no_paren_lookahead(g) ==
  The({ IF left.exc # None THEN left
        ELSE The({ IF right.exc # None THEN right
                   ELSE IF right.val = NoneObj THEN Ret(right.g, left.val)
                   ELSE Ret(right.g, <<"AND", left.val, right.val>>) :
                   right \in {IF next(left.g) = "("
                                THEN Ret(left.g, NoneObj)
                                ELSE parse_term_right(left, next(left.g))} }) :
        left \in {parse_prod(g)} })

parse_term(g) ==
  The({ IF left.exc # None THEN left
        ELSE The({ IF right.exc # None THEN right
                   ELSE IF right.val = NoneObj THEN Ret(right.g, left.val)
                   ELSE Ret(right.g, <<"AND", left.val, right.val>>) :
                   right \in {parse_term_right(left, next(left.g))} }) :
        left \in {parse_prod(g)} })

parse_expr(g) ==
  The({ IF left.exc # None THEN left
        ELSE IF next(left.g) = "+"
          THEN The({ IF right.exc # None THEN right
                     ELSE Ret(right.g, <<"OR", left.val, right.val>>) :
                     right \in {parse_expr(consume(left.g))} })
          ELSE left :
        left \in {parse_term(g)} })

\* The filter of parse: drop the whitespace characters.
lex(s) == SelectSeq(s, LAMBDA c : c # "" /\ ~isspace(c))

\* The body of parse after "toks = ...; toks_i = ...".
parse_from(g0) ==
  The({ IF e.exc # None THEN e
        ELSE The({ IF x.exc # None THEN x ELSE Ret(x.g, e.val) :
                   x \in {expect(e.g, None)} }) :
        e \in {parse_expr(g0)} })

\* Mutant: the cursor is not reset, "toks_i = 0" is left out.
parse_no_reset(g, s) ==
  parse_from([toks |-> lex(s), toks_i |-> g.toks_i, log |-> <<g.toks_i>>])

\* Mutant: the end of the input is not checked, "expect(None)" is left out.
parse_no_eof(g, s) ==
  parse_expr([toks |-> lex(s), toks_i |-> 0, log |-> <<0>>])

\* parse(string), called with the globals g of the module.
parse(g, s) ==
  parse_from([toks |-> lex(s), toks_i |-> 0, log |-> <<0>>])

(***************************************************************************)
(* Variable collector.                                                     *)
(***************************************************************************)
RECURSIVE walk(_)

\* The set filled by walk(e) of expr_vars, for an expr that is a str or a tuple.
walk(e) ==
  IF pytype(e) = "str" THEN {e[2]}
  ELSE UNION {walk(e[k]) : k \in 2..Len(e)}

RECURSIVE sorted(_), sorted_descending(_)

\* Mutant: the list is sorted in descending order.
sorted_descending(S) ==
  IF S = {} THEN <<>>
  ELSE LET m == CHOOSE x \in S : \A y \in S : Ord(x) >= Ord(y)
       IN <<m>> \o sorted_descending(S \ {m})

\* sorted(list(S)) for a set S of characters: ascending code points.
sorted(S) ==
  IF S = {} THEN <<>>
  ELSE LET m == CHOOSE x \in S : \A y \in S : Ord(x) <= Ord(y)
       IN <<m>> \o sorted(S \ {m})

expr_vars(e) ==
  IF pytype(e) \notin {"str", "tuple"}
    THEN error(<<>>, "invalid expr, not string or tuple")
    ELSE Ret(<<>>, sorted(walk(e)))

(***************************************************************************)
(* Binding enumerator.  pairs is a sequence of <<name, value>>; a dict is  *)
(* a function from its keys to their values.                               *)
(***************************************************************************)
reversed(s) == [i \in 1..Len(s) |-> s[Len(s) + 1 - i]]

\* dict(ps) for a sequence ps of <<key, value>>: the last value of a key wins.
dict(ps) ==
  [k \in {ps[i][1] : i \in DOMAIN ps} |->
     ps[CHOOSE i \in DOMAIN ps :
          ps[i][1] = k /\ \A j \in DOMAIN ps : ps[j][1] = k => j <= i][2]]

RECURSIVE increment_from(_, _)

\* The loop of pairs_increment from index i (1-based) on.
increment_from(pairs, i) ==
  IF i > Len(pairs) THEN pairs
  ELSE LET flipped == [pairs EXCEPT ![i] = <<@[1], ~@[2]>>]
           carry == flipped[i][2] = FALSE
       IN IF carry = FALSE THEN flipped ELSE increment_from(flipped, i + 1)

\* Mutant: the carry is dropped, only the first pair is ever flipped.
pairs_increment_no_carry(pairs) ==
  IF pairs = <<>> THEN pairs ELSE [pairs EXCEPT ![1] = <<@[1], ~@[2]>>]

pairs_increment(pairs) == increment_from(pairs, 1)

RECURSIVE combos_loop(_, _, _)

\* The loop "for i in range(2**len(vars) - 1)" with n iterations left.
combos_loop(pairs, combos, n) ==
  IF n <= 0 THEN combos
  ELSE LET p == pairs_increment(pairs)
       IN combos_loop(p, Append(combos, dict(reversed(p))), n - 1)

\* Mutant: pairs.reverse() is left out, the first variable counts fastest.
var_bind_combos_no_reverse(vs) ==
  LET pairs == [i \in 1..Len(vs) |-> <<vs[i], FALSE>>]
  IN combos_loop(pairs, <<dict(pairs)>>, 2^Len(vs) - 1)

var_bind_combos(vs) ==
  LET pairs == reversed([i \in 1..Len(vs) |-> <<vs[i], FALSE>>])
  IN combos_loop(pairs, <<dict(reversed(pairs))>>, 2^Len(vs) - 1)

(***************************************************************************)
(* Evaluator.                                                              *)
(***************************************************************************)
RECURSIVE expr_eval(_, _)

\* Mutant: Op.AND is evaluated with "or".
expr_eval_and_as_or(e, b) ==
  IF pytype(e) = "tuple" /\ e[1] = "AND"
    THEN LET l == expr_eval(e[2], b) IN
         IF l.exc # None THEN l
         ELSE IF l.val THEN l
         ELSE expr_eval(e[3], b)
    ELSE IF pytype(e) = "str"
      THEN IF e[2] \in DOMAIN b THEN Ret(<<>>, b[e[2]])
           ELSE Raise(<<>>, "KeyError: '" \o e[2] \o "'")
    ELSE IF e[1] = "NOT"
      THEN LET x == expr_eval(e[2], b) IN
           IF x.exc # None THEN x ELSE Ret(<<>>, ~x.val)
    ELSE LET l == expr_eval(e[2], b) IN
         IF l.exc # None THEN l
         ELSE IF l.val THEN l
         ELSE expr_eval(e[3], b)

expr_eval(e, b) ==
  IF pytype(e) = "str"
    THEN IF e[2] \in DOMAIN b THEN Ret(<<>>, b[e[2]])
         ELSE Raise(<<>>, "KeyError: '" \o e[2] \o "'")
  ELSE IF pytype(e) # "tuple"
    THEN error(<<>>, "invalid expr, not string or tuple")
  ELSE CASE e[1] = "NOT" ->
              LET x == expr_eval(e[2], b) IN
              IF x.exc # None THEN x ELSE Ret(<<>>, ~x.val)
         [] e[1] = "AND" ->
              LET l == expr_eval(e[2], b) IN
              IF l.exc # None THEN l
              ELSE IF ~l.val THEN l
              ELSE expr_eval(e[3], b)
         [] e[1] = "OR" ->
              LET l == expr_eval(e[2], b) IN
              IF l.exc # None THEN l
              ELSE IF l.val THEN l
              ELSE expr_eval(e[3], b)
         [] OTHER -> error(<<>>, "unknown op: " \o e[1])

(***************************************************************************)
(* Printer.  The output is the sequence of the lines printed.              *)
(***************************************************************************)
RECURSIVE join_cells(_)

\* The text printed by "for v in vars: print(f' {v}', end='')".
join_cells(cells) ==
  IF cells = <<>> THEN "" ELSE " " \o Head(cells) \o join_cells(Tail(cells))

RECURSIVE repeat(_, _)

\* c * n for a string c.
repeat(c, n) == IF n <= 0 THEN "" ELSE c \o repeat(c, n - 1)

\* str(v) for v in {0, 1}.
str01(v) == IF v = 1 THEN "1" ELSE "0"

print_tt_header(vs) ==
  << "|" \o join_cells(vs) \o " | " \o " " \o " |",
     repeat("-", 1 + 2 * Len(vs) + 6) >>

print_tt_row(input_vals, output_val) ==
  << "|" \o join_cells([i \in 1..Len(input_vals) |-> str01(input_vals[i])])
         \o " | " \o str01(output_val) \o " |" >>

(***************************************************************************)
(* main.                                                                   *)
(***************************************************************************)
RECURSIVE rows_loop(_, _, _, _, _)

\* The loop "for binds in bind_combos" of gen_truth_table from index k on;
\* an exception of expr_eval ends it.
rows_loop(e, vs, combos, k, printed) ==
  IF k > Len(combos) THEN [exc |-> None, out |-> printed]
  ELSE LET b == combos[k]
           vals == [i \in 1..Len(vs) |-> IF b[vs[i]] THEN 1 ELSE 0]
           r == expr_eval(e, b)
       IN IF r.exc # None THEN [exc |-> r.exc, out |-> printed]
          ELSE rows_loop(e, vs, combos, k + 1,
                         printed \o print_tt_row(vals, IF r.val THEN 1 ELSE 0))

\* Mutant: the loop over bind_combos stops one binding early.
gen_truth_table_one_short(e) ==
  LET v == expr_vars(e) IN
  IF v.exc # None
    THEN [exc |-> v.exc, out |-> <<>>, vars |-> <<>>, bind_combos |-> <<>>]
    ELSE LET combos == var_bind_combos(v.val)
             rows == rows_loop(e, v.val, SubSeq(combos, 1, Len(combos) - 1), 1,
                               print_tt_header(v.val))
         IN [exc |-> rows.exc, out |-> rows.out, vars |-> v.val, bind_combos |-> combos]

gen_truth_table(e) ==
  LET v == expr_vars(e) IN
  IF v.exc # None
    THEN [exc |-> v.exc, out |-> <<>>, vars |-> <<>>, bind_combos |-> <<>>]
    ELSE LET combos == var_bind_combos(v.val)
             rows == rows_loop(e, v.val, combos, 1, print_tt_header(v.val))
         IN [exc |-> rows.exc, out |-> rows.out, vars |-> v.val, bind_combos |-> combos]

\* Mutant: the table is started although parse raised.
main_header_after_error(g, s) ==
  The({ IF p.exc # None
          THEN [g |-> p.g, expr |-> NoneObj, exc |-> p.exc,
                out |-> <<p.exc>> \o print_tt_header(<<>>),
                vars |-> <<>>, bind_combos |-> <<>>]
          ELSE The({ [g |-> p.g, expr |-> p.val, exc |-> t.exc, out |-> t.out,
                      vars |-> t.vars, bind_combos |-> t.bind_combos] :
                     t \in {gen_truth_table(p.val)} }) :
        p \in {parse(g, s)} })

\* main(string), called with the globals g; exc is the exception that
\* parse raised (caught and printed) or that escaped main.
main(g, s) ==
  The({ IF p.exc # None
          THEN [g |-> p.g, expr |-> NoneObj, exc |-> p.exc, out |-> <<p.exc>>,
                vars |-> <<>>, bind_combos |-> <<>>]
          ELSE The({ [g |-> p.g, expr |-> p.val, exc |-> t.exc, out |-> t.out,
                      vars |-> t.vars, bind_combos |-> t.bind_combos] :
                     t \in {gen_truth_table(p.val)} }) :
        p \in {parse(g, s)} })

(***************************************************************************)
(* Inputs.                                                                 *)
(***************************************************************************)
Chars == {"a", "b", "(", ")", "'", "+", "*", " "}

Strings(n) == UNION {[1..k -> Chars] : k \in 0..n}

\* Longer inputs that the general bound does not reach.
Examples ==
  { <<"a","+","b","+","c">>, <<"a","+","b","*","c">>, <<"a","*","b","+","c">>,
    <<"a","b","c">>, <<"a","b","'">>, <<"(","a","+","b",")","'">>,
    <<"a","*","(","b","+","c",")">>, <<"a","(","b","+","c",")">>,
    <<"(","a","+","b",")","c">>, <<"a","'","*","b","'","*","c">>,
    <<"b","+","a">>, <<"a","+","B">>, <<"c","b","+","a","b">>,
    <<"a","+">>, <<"a","*">>, <<>>, <<"(","a">>, <<"a",")">>, <<"a","'","'">>,
    <<"a"," ","+","\t","b","\n">> }

Inputs == Strings(MaxLen) \cup Examples

SeqChars == {"a", "(", ")", "'", "+", " "}

SeqInputs == UNION {[1..k -> SeqChars] : k \in 0..SeqMaxLen}

EnumNames == {"a", "b", "c", "d", "e"}

\* The lists of distinct names of at most MaxVars elements.
VarLists ==
  UNION {{s \in [1..k -> EnumNames] : \A i, j \in 1..k : i # j => s[i] # s[j]} :
         k \in 0..MaxVars}

EvalNames == {"a", "b", "c"}

RECURSIVE ASTsOfSize(_)

\* The ASTs of exactly n nodes over EvalNames.
ASTsOfSize(n) ==
  IF n <= 0 THEN {}
  ELSE IF n = 1 THEN {<<"VAR", v>> : v \in EvalNames}
  ELSE {<<"NOT", e>> : e \in ASTsOfSize(n - 1)}
       \cup UNION {{<<op, l, r>> : op \in {"AND", "OR"},
                                   l \in ASTsOfSize(k),
                                   r \in ASTsOfSize(n - 1 - k)} : k \in 1..(n - 2)}

ASTs == UNION {ASTsOfSize(n) : n \in 1..MaxNodes}

\* The bindings over any subset of EvalNames (partial ones included).
Bindings == UNION {[D -> BOOLEAN] : D \in SUBSET EvalNames}

(***************************************************************************)
(* Specifications.                                                         *)
(***************************************************************************)
\* The module globals as the state holds them.
Globals == [toks |-> toks, toks_i |-> toks_i, log |-> log]

\* The module globals right after import: toks = None, toks_i = 0.
Fresh == [toks |-> NoneObj, toks_i |-> 0, log |-> <<>>]

\* The cursor at the entry of the last call, and whether the call before it raised.
NoEntry == [toks_i |-> 0, failed |-> FALSE]

InitCommon ==
  /\ pc = "start"
  /\ toks = Fresh.toks /\ toks_i = Fresh.toks_i /\ log = Fresh.log
  /\ entry = NoEntry
  /\ exc = None /\ out = <<>>

\* Spec: one run of the program, main(argv[1]).
Init ==
  /\ InitCommon
  /\ string \in Inputs
  /\ expr = NoneObj /\ vars = <<>> /\ bind_combos = <<>>
  /\ binds = <<>> /\ result = NoneObj

Main ==
  /\ pc = "start"
  /\ LET r == main(Globals, string) IN
       /\ toks' = r.g.toks /\ toks_i' = r.g.toks_i /\ log' = r.g.log
       /\ expr' = r.expr /\ exc' = r.exc /\ out' = r.out
       /\ vars' = r.vars /\ bind_combos' = r.bind_combos
  /\ entry' = [toks_i |-> toks_i, failed |-> exc # None]
  /\ pc' = "done"
  /\ UNCHANGED <<string, binds, result>>

Next == Main

Spec == Init /\ [][Next]_state_vars

\* SpecSeq: the module used as a library, parse called any number of times.
InitSeq ==
  /\ InitCommon
  /\ string = <<>>
  /\ expr = NoneObj /\ vars = <<>> /\ bind_combos = <<>>
  /\ binds = <<>> /\ result = NoneObj

CallParse(s) ==
  /\ LET r == parse(Globals, s) IN
       /\ toks' = r.g.toks /\ toks_i' = r.g.toks_i /\ log' = r.g.log
       /\ expr' = r.val /\ exc' = r.exc
  /\ string' = s
  /\ entry' = [toks_i |-> toks_i, failed |-> exc # None]
  /\ pc' = "parse"
  /\ UNCHANGED <<vars, bind_combos, binds, result, out>>

NextSeq == \E s \in SeqInputs : CallParse(s)

SpecSeq == InitSeq /\ [][NextSeq]_state_vars

\* SpecEnum: var_bind_combos applied to a list of distinct names.
InitEnum ==
  /\ InitCommon
  /\ string = <<>>
  /\ expr = NoneObj /\ vars \in VarLists /\ bind_combos = <<>>
  /\ binds = <<>> /\ result = NoneObj

CallVarBindCombos ==
  /\ pc = "start"
  /\ bind_combos' = var_bind_combos(vars)
  /\ pc' = "done"
  /\ UNCHANGED <<string, toks, toks_i, log, entry, expr, exc, vars, binds, result, out>>

NextEnum == CallVarBindCombos

SpecEnum == InitEnum /\ [][NextEnum]_state_vars

\* SpecEval: expr_eval applied to an AST and a binding.
InitEval ==
  /\ InitCommon
  /\ string = <<>>
  /\ expr \in ASTs /\ vars = <<>> /\ bind_combos = <<>>
  /\ binds \in Bindings /\ result = NoneObj

CallExprEval ==
  /\ pc = "start"
  /\ LET r == expr_eval(expr, binds) IN
       /\ result' = [exc |-> r.exc, val |-> r.val]
       /\ exc' = r.exc
  /\ pc' = "done"
  /\ UNCHANGED <<string, toks, toks_i, log, entry, expr, vars, bind_combos, binds, out>>

NextEval == CallExprEval

SpecEval == InitEval /\ [][NextEval]_state_vars

(***************************************************************************)
(* Properties.                                                             *)
(***************************************************************************)
Elems(s) == {s[i] : i \in DOMAIN s}

\* C1: for a list of N distinct names var_bind_combos returns exactly 2^N
\* bindings, each total over exactly those names, pairwise different, every
\* element of {false,true}^N among them; for N = 0 one empty binding.
C1_AllBindingsOnce ==
  pc = "done" =>
    LET N == Len(vars) IN
    /\ Len(bind_combos) = 2^N
    /\ \A i \in DOMAIN bind_combos :
         /\ DOMAIN bind_combos[i] = Elems(vars)
         /\ \A v \in Elems(vars) : bind_combos[i][v] \in BOOLEAN
    /\ \A i, j \in DOMAIN bind_combos : i # j => bind_combos[i] # bind_combos[j]
    /\ \A f \in [Elems(vars) -> BOOLEAN] : \E i \in DOMAIN bind_combos : bind_combos[i] = f
    /\ (N = 0 => bind_combos = << <<>> >>)

C1_Witness ==
  /\ pc = "done"
  /\ vars = <<"c", "a", "b">>
  /\ Len(bind_combos) = 8
  /\ bind_combos[8] = [v \in {"a", "b", "c"} |-> TRUE]

\* C3: the bindings come in binary-counter order, the last variable of the
\* list the least-significant bit: binding r (from 0) gives the variable at
\* position N-1-k (from 0) the value of bit k of r.
C3_BinaryCounterOrder ==
  pc = "done" =>
    LET N == Len(vars) IN
    /\ Len(bind_combos) = 2^N
    /\ \A r \in 0..(2^N - 1) : \A k \in 0..(N - 1) :
         bind_combos[r + 1][vars[N - k]] = (((r \div 2^k) % 2) = 1)

C3_Witness ==
  /\ pc = "done"
  /\ vars = <<"a", "b">>
  /\ bind_combos = << [v \in {"a", "b"} |-> FALSE],
                      [v \in {"a", "b"} |-> v = "b"],
                      [v \in {"a", "b"} |-> v = "a"],
                      [v \in {"a", "b"} |-> TRUE] >>

RECURSIVE Std(_, _)

\* The standard truth value of an AST under a binding of all its variables.
Std(e, b) ==
  CASE e[1] = "VAR" -> b[e[2]]
    [] e[1] = "NOT" -> ~Std(e[2], b)
    [] e[1] = "AND" -> Std(e[2], b) /\ Std(e[3], b)
    [] e[1] = "OR"  -> Std(e[2], b) \/ Std(e[3], b)

RECURSIVE VarsOf(_)

\* The variables that occur in an AST.
VarsOf(e) ==
  CASE e[1] = "VAR" -> {e[2]}
    [] e[1] = "NOT" -> VarsOf(e[2])
    [] OTHER -> VarsOf(e[2]) \cup VarsOf(e[3])

\* The total bindings over D that agree with b where b is defined.
Completions(b, D) == {c \in [D -> BOOLEAN] : \A v \in D \cap DOMAIN b : c[v] = b[v]}

\* C7 as stated: with a binding that covers the variables expr_eval returns
\* the standard value, and with a variable of the AST absent from the
\* binding it fails instead of returning a value.
C7_FailsWheneverUnbound ==
  pc = "done" =>
    IF VarsOf(expr) \subseteq DOMAIN binds
      THEN result.exc = None /\ result.val = Std(expr, binds)
      ELSE result.exc # None

\* C7 as amended: with a binding that covers the variables expr_eval returns
\* the standard value (a variable its bound value); a lone variable absent
\* from the binding fails; with a variable of the AST absent, expr_eval either
\* fails or returns the value that every extension of the binding to all the
\* variables gives (the operand that decides "and"/"or" was evaluated first).
C7_StandardValueOrFailure ==
  pc = "done" =>
    /\ VarsOf(expr) \subseteq DOMAIN binds =>
         /\ result.exc = None
         /\ result.val = Std(expr, binds)
    /\ (expr[1] = "VAR" /\ expr[2] \in DOMAIN binds) => result.val = binds[expr[2]]
    /\ (expr[1] = "VAR" /\ expr[2] \notin DOMAIN binds) => result.exc # None
    /\ ~(VarsOf(expr) \subseteq DOMAIN binds) =>
         \/ result.exc # None
         \/ \A c \in Completions(binds, VarsOf(expr) \cup DOMAIN binds) :
              result.val = Std(expr, c)

\* A short-circuited evaluation: b is unbound, yet a value is returned.
C7_Witness ==
  /\ pc = "done"
  /\ expr = <<"AND", <<"VAR", "a">>, <<"NOT", <<"VAR", "b">>>>>>
  /\ binds = [v \in {"a"} |-> FALSE]
  /\ result.exc = None
  /\ result.val = FALSE

RECURSIVE Leaves(_)

\* The variables of an AST from left to right, repetitions kept.
Leaves(e) ==
  CASE e[1] = "VAR" -> <<e[2]>>
    [] e[1] = "NOT" -> Leaves(e[2])
    [] OTHER -> Leaves(e[2]) \o Leaves(e[3])

RECURSIVE Dedup(_, _)

\* s without the elements of seen and without repetitions, order kept.
Dedup(s, seen) ==
  IF s = <<>> THEN <<>>
  ELSE IF Head(s) \in seen THEN Dedup(Tail(s), seen)
  ELSE <<Head(s)>> \o Dedup(Tail(s), seen \cup {Head(s)})

\* The distinct variables in order of first appearance, depth first, left to right.
FirstAppearance(e) == Dedup(Leaves(e), {})

ParseOk == pc = "done" /\ expr # NoneObj

\* C2 as stated: the k-th element of the collected list is the k-th distinct
\* variable met in a depth-first, left-to-right traversal ("b+a" gives [b, a]).
C2_FirstAppearanceOrder ==
  ParseOk => vars = FirstAppearance(expr)

\* C2 as amended: the collected list holds each variable of the AST once, in
\* ascending order of the characters' code points ("b+a" gives [a, b]).
C2_SortedDistinct ==
  ParseOk =>
    /\ Elems(vars) = Elems(FirstAppearance(expr))
    /\ \A i, j \in DOMAIN vars : i < j => Ord(vars[i]) < Ord(vars[j])
    /\ (lex(string) = <<"b", "+", "a">> => vars = <<"a", "b">>)

C2_Witness ==
  /\ ParseOk
  /\ string = <<"c", "b", "+", "a", "b">>
  /\ vars = <<"a", "b", "c">>
  /\ FirstAppearance(expr) = <<"c", "b", "a">>

V(c) == <<"VAR", c>>

IsProdShape(e) == e[1] = "VAR" \/ (e[1] = "NOT" /\ e[2][1] = "VAR")

RECURSIVE IsTermShape(_)

\* A product, or an AND of a product and a term: AND leans to the right and
\* holds no OR.
IsTermShape(e) ==
  \/ IsProdShape(e)
  \/ e[1] = "AND" /\ IsProdShape(e[2]) /\ IsTermShape(e[3])

RECURSIVE IsExprShape(_)

\* A term, or an OR of a term and an expression: OR leans to the right.
IsExprShape(e) ==
  \/ IsTermShape(e)
  \/ e[1] = "OR" /\ IsTermShape(e[2]) /\ IsExprShape(e[3])

RECURSIVE CountNot(_)

CountNot(e) ==
  CASE e[1] = "VAR" -> 0
    [] e[1] = "NOT" -> 1 + CountNot(e[2])
    [] OTHER -> CountNot(e[2]) + CountNot(e[3])

\* C4: the AST follows the grammar's precedence.  Without parentheses in the
\* input every NOT is applied to a variable, every AND has a product on its
\* left and no OR below it, every OR has a term on its left; with or without
\* parentheses the leaves are the input's letters in order and there is one
\* NOT per "'"; and the named inputs give the named trees.
C4_Precedence ==
  ParseOk =>
    LET ts == lex(string) IN
    /\ ("(" \notin Elems(ts)) => IsExprShape(expr)
    /\ Leaves(expr) = SelectSeq(ts, isalpha)
    /\ CountNot(expr) = Len(SelectSeq(ts, LAMBDA c : c = "'"))
    /\ (ts = <<"a","+","b","+","c">> => expr = <<"OR", V("a"), <<"OR", V("b"), V("c")>>>>)
    /\ (ts = <<"a","+","b","*","c">> => expr = <<"OR", V("a"), <<"AND", V("b"), V("c")>>>>)
    /\ (ts = <<"a","*","b","+","c">> => expr = <<"OR", <<"AND", V("a"), V("b")>>, V("c")>>)
    /\ (ts = <<"a","b","c">> => expr = <<"AND", V("a"), <<"AND", V("b"), V("c")>>>>)
    /\ (ts = <<"a","b","'">> => expr = <<"AND", V("a"), <<"NOT", V("b")>>>>)
    /\ (ts = <<"(","a","+","b",")","'">> => expr = <<"NOT", <<"OR", V("a"), V("b")>>>>)

C4_Witness ==
  /\ ParseOk
  /\ string = <<"a","+","b","*","c">>
  /\ expr = <<"OR", V("a"), <<"AND", V("b"), V("c")>>>>

\* The token at the cursor, None at the end of the input.
AtCursor == next(Globals)

Letters == {c \in Chars : isalpha(c)}

RECURSIVE ProdL(_), TermL(_), ExprL(_)

\* The token lists of exactly n tokens that the grammar derives from PROD.
ProdL(n) ==
  (IF n = 1 THEN {<<v>> : v \in Letters} ELSE {})
  \cup (IF n = 2 THEN {<<v, "'">> : v \in Letters} ELSE {})
  \cup (IF n >= 3 THEN {<<"(">> \o e \o <<")">> : e \in ExprL(n - 2)} ELSE {})
  \cup (IF n >= 4 THEN {<<"(">> \o e \o <<")", "'">> : e \in ExprL(n - 3)} ELSE {})

\* ... from TERM.
TermL(n) ==
  ProdL(n)
  \cup UNION {{p \o t : p \in ProdL(k), t \in TermL(n - k)} : k \in 1..(n - 1)}
  \cup UNION {{p \o <<"*">> \o t : p \in ProdL(k), t \in TermL(n - k - 1)} : k \in 1..(n - 2)}

\* ... from EXPR.
ExprL(n) ==
  TermL(n)
  \cup UNION {{t \o <<"+">> \o e : t \in TermL(k), e \in ExprL(n - k - 1)} : k \in 1..(n - 2)}

\* The sentences of the grammar over Chars, up to the length of the inputs.
Sentences == UNION {ExprL(n) : n \in 1..MaxLen}

\* C5: parse fails, returning no AST, exactly in three ways: (a) a variable
\* is expected and the token at the cursor is missing or no letter, (b) ")"
\* is expected and the token at the cursor is something else, (c) tokens
\* remain after a complete expression; it returns an AST only with the end
\* of the input reached (and consumed), and only for a sentence of the grammar.
C5_SyntaxErrors ==
  pc = "done" =>
    LET ts == lex(string) IN
    /\ exc = None => expr # NoneObj /\ toks_i = Len(toks) + 1
    /\ exc # None =>
         /\ expr = NoneObj
         /\ \/ /\ exc = "error: expected variable, got '" \o AtCursor \o "'"
               /\ AtCursor = None \/ ~isalpha(AtCursor)
            \/ /\ exc = "error: expected ), got '" \o AtCursor \o "'"
               /\ AtCursor # ")"
            \/ /\ exc = "error: expected None, got '" \o AtCursor \o "'"
               /\ toks_i < Len(toks)
               /\ parse_expr([toks |-> toks, toks_i |-> 0, log |-> <<0>>]).exc = None
    /\ (string \in Strings(MaxLen) => (exc = None <=> ts \in Sentences))
    /\ (ts \in {<<"a","+">>, <<"a","*">>, <<>>} => exc = "error: expected variable, got 'None'")
    /\ (ts = <<"(","a">> => exc = "error: expected ), got 'None'")
    /\ (ts = <<"a",")">> => exc = "error: expected None, got ')'")
    /\ (ts = <<"a","'","'">> => exc = "error: expected None, got '''")

C5_Witness ==
  /\ pc = "done"
  /\ string = <<"(","a">>
  /\ exc = "error: expected ), got 'None'"
  /\ expr = NoneObj
  /\ out = <<exc>>

\* C6: on a syntax error main prints the one diagnostic line and nothing
\* else: no header, no row.
C6_OnlyDiagnostic ==
  (pc = "done" /\ parse(Fresh, string).exc # None) =>
    /\ Len(out) = 1
    /\ out[1] = parse(Fresh, string).exc
    /\ vars = <<>> /\ bind_combos = <<>>

C6_Witness ==
  /\ pc = "done"
  /\ string = <<"a","+">>
  /\ out = <<"error: expected variable, got 'None'">>

\* The line of the table for binding b.
RowOf(b) ==
  "|" \o join_cells([i \in 1..Len(vars) |-> IF b[vars[i]] THEN "1" ELSE "0"])
      \o " | " \o (IF Std(expr, b) THEN "1" ELSE "0") \o " |"

\* C8: for a parsed expression of N distinct variables main prints the header
\* and then exactly 2^N rows, one per binding in enumerator order; every
\* binding has exactly the collected variables as its domain, no evaluation
\* fails, and a row shows the binding's values in column order and then the
\* value of the expression, as 0/1.
C8_TableRows ==
  ParseOk =>
    LET N == Cardinality(VarsOf(expr)) IN
    /\ exc = None
    /\ Len(vars) = N
    /\ bind_combos = var_bind_combos(vars)
    /\ Len(out) = 2 + 2^N
    /\ SubSeq(out, 1, 2) = print_tt_header(vars)
    /\ \A r \in 1..(2^N) :
         /\ DOMAIN bind_combos[r] = VarsOf(expr)
         /\ DOMAIN bind_combos[r] = Elems(vars)
         /\ out[2 + r] = RowOf(bind_combos[r])

C8_Witness ==
  /\ ParseOk
  /\ string = <<"b","+","a","'">>
  /\ out = <<"| a b |   |", "-----------", "| 0 0 | 1 |", "| 0 1 | 1 |",
             "| 1 0 | 0 |", "| 1 1 | 1 |">>

DeleteStars(s) == SelectSeq(s, LAMBDA c : c # "*")

\* C9: implicit and explicit AND are synonyms: the input of a successful
\* parse with every "*" deleted parses too, to the identical AST.
C9_StarIsJuxtaposition ==
  ParseOk =>
    LET r == parse(Fresh, DeleteStars(string)) IN
    /\ r.exc = None
    /\ r.val = expr

C9_Witness ==
  /\ ParseOk
  /\ string = <<"a","*","(","b","+","c",")">>
  /\ parse(Fresh, <<"a","(","b","+","c",")">>).val = expr
  /\ expr = <<"AND", V("a"), <<"OR", V("b"), V("c")>>>>

Min(a, b) == IF a <= b THEN a ELSE b

\* C10: in any sequence of parse calls (after a failed one too) a call runs
\* over its own token list with the cursor starting at 0; every assignment
\* to the cursor after that adds exactly one; a successful call has consumed
\* every token (and the end marker); the outcome is that of the same call in
\* a fresh module; and a failure is decided by the tokens up to the cursor
\* alone (nothing beyond the token at the cursor was inspected).
C10_SinglePass ==
  pc = "parse" =>
    /\ toks = lex(string)
    /\ log[1] = 0
    /\ \A k \in 1..(Len(log) - 1) : log[k + 1] = log[k] + 1
    /\ toks_i = log[Len(log)]
    /\ toks_i <= Len(toks) + 1
    /\ exc = None => toks_i = Len(toks) + 1
    /\ LET f == parse(Fresh, string) IN
         f.val = expr /\ f.exc = exc /\ f.g.toks_i = toks_i
    /\ exc # None =>
         LET f == parse(Fresh, SubSeq(toks, 1, Min(toks_i + 1, Len(toks)))) IN
         f.exc = exc /\ f.g.toks_i = toks_i

\* A successful call that follows a failed one which left the cursor at 1.
C10_Witness ==
  /\ pc = "parse"
  /\ entry.failed
  /\ entry.toks_i = 1
  /\ string = <<"a", "a">>
  /\ exc = None
  /\ log = <<0, 1, 2, 3>>
  /\ expr = <<"AND", V("a"), V("a")>>

====
